---- MODULE Spec2Model ----
(***************************************************************************)
(* Model of the onebox deployment sample: the resource graph the CDK       *)
(* application declares (service stack: reverse proxy, compute, deployment *)
(* monitoring; toolchain stack: the delivery pipeline), and the behaviour  *)
(* that graph prescribes to the pipeline engine, the container service and *)
(* the autoscaler when the Prod stage runs.                                *)
(*                                                                         *)
(* Python strings are sequences of one-character strings, so that lower(), *)
(* the substring test and split("-") are computed, not assumed.            *)
(* constants.ServiceConstants in the service and toolchain code denotes    *)
(* the constants class of constants.py (declared there as Service).        *)
(***************************************************************************)
EXTENDS Integers, Sequences, FiniteSets, TLC

\* ------------------------------------------------------------------ bounds
\* Longest generated stack name (besides the two names app.py and the
\* toolchain use).
MaxNameLen == 4
\* Number of pipeline executions explored.
MaxExecutions == 2

\* ----------------------------------------------------------------- strings
UPPER == <<"A","B","C","D","E","F","G","H","I","J","K","L","M",
           "N","O","P","Q","R","S","T","U","V","W","X","Y","Z">>
LOWER == <<"a","b","c","d","e","f","g","h","i","j","k","l","m",
           "n","o","p","q","r","s","t","u","v","w","x","y","z">>

\* str.lower() on one character.
LowerChar(c) ==
    IF \E i \in 1..Len(UPPER) : UPPER[i] = c
    THEN LOWER[CHOOSE i \in 1..Len(UPPER) : UPPER[i] = c]
    ELSE c

\* str.lower()
lower(s) == [i \in 1..Len(s) |-> LowerChar(s[i])]

\* Python's `needle in hay` on strings.
str_in(needle, hay) ==
    \E i \in 0..(Len(hay) - Len(needle)) :
        SubSeq(hay, i + 1, i + Len(needle)) = needle

\* Position of the last separator in s, 0 when there is none.
RECURSIVE rfind(_, _, _)
rfind(s, sep, i) ==
    IF i = 0 THEN 0
    ELSE IF s[i] = sep THEN i
    ELSE rfind(s, sep, i - 1)

\* s.split(sep)[-1]
split_last(s, sep) == SubSeq(s, rfind(s, sep, Len(s)) + 1, Len(s))

\* ---------------------------------------------------------------- constants
SANDBOX == <<"S","a","n","d","b","o","x">>
PROD == <<"P","r","o","d">>
ONEBOX == <<"O","n","e","b","o","x">>
FLEET == <<"F","l","e","e","t">>
DeploymentStages == {ONEBOX, FLEET}

APP_NAME == <<"O","n","e","B","o","x","D","e","p","l","o","y","m","e","n","t",
              "O","n","E","C","S">>

\* "{app}-{env}".format(app=..., env=...)
ECS_CLUSTER_NAME_TEMPLATE(app, env) == app \o <<"-">> \o env
\* "{app}-{stage}".format(app=..., stage=...)
ECS_SERVICE_NAME_TEMPLATE(app, stage) == app \o <<"-">> \o stage

PORT == 80
CPU == 512
MEMORY == 2048
ONEBOX_WEIGHT == 1
FLEET_WEIGHT == 99
BOOTSTRAP_CONTAINER_IMAGE == "nginx:1.23.3"
LB_HEALTH_CHECK_PATH == "/"
LB_HEALTH_CHECK_TIMEOUT == 10

TARGET_RESPONSE_TIME_METRIC_ALARM_PARAMETERS ==
    [metric_name |-> "TargetResponseTime", statistic |-> "tm(90%:100%)",
     period |-> 60, threshold |-> 3, evaluation_period |-> 4,
     datapoints_to_alarm |-> 3]

ONEBOX_AUTOSCALING_PARAMETERS ==
    [deployment_stage |-> ONEBOX, min_capacity |-> 3, desired_capacity |-> 3,
     max_capacity |-> 10, target_cpu_utilization |-> 75]

FLEET_AUTOSCALING_PARAMETERS ==
    [deployment_stage |-> FLEET, min_capacity |-> 10, desired_capacity |-> 10,
     max_capacity |-> 1000, target_cpu_utilization |-> 75]

\* The stack ids app.py and the toolchain give the two service stacks.
SANDBOX_STACK_NAME == APP_NAME \o <<"-","S","e","r","v","i","c","e","-">> \o SANDBOX
PROD_STACK_NAME == APP_NAME \o <<"-","S","e","r","v","i","c","e","-">> \o PROD

\* -------------------------------------------------- the synthesized template
\* f with key k bound to v (a Python attribute or dict assignment).
Put(f, k, v) == [x \in (DOMAIN f) \cup {k} |-> IF x = k THEN v ELSE f[x]]

NoObjects == [x \in {} |-> x]

TARGET_GROUP == <<"T","a","r","g","e","t","G","r","o","u","p">>
RUNTIME_DIRECTORY_RELATIVE_PATH == "web_api"

\* A stack before any construct is added to it.
Stack(stack_name) ==
    [stack_name |-> stack_name,
     target_groups |-> NoObjects,
     onebox_target_group |-> <<>>, fleet_target_group |-> <<>>,
     listener |-> <<>>,
     ecs_cluster_name |-> <<>>,
     task_definitions |-> <<>>,
     services |-> NoObjects,
     onebox_service |-> <<>>, fleet_service |-> <<>>,
     runtime_container_image_asset |-> "",
     alarms |-> NoObjects,
     outputs |-> NoObjects]

\* ReverseProxy._create_target_group: the id of the new group and the stack
\* holding it.
_create_target_group(t, deployment_stage, lb_health_check_path, lb_health_check_timeout) ==
    [t EXCEPT !.target_groups =
        Put(@, deployment_stage \o TARGET_GROUP,
            [protocol |-> "HTTP",
             health_check_path |-> lb_health_check_path,
             health_check_timeout |-> lb_health_check_timeout,
             targets |-> {}])]

\* The variant with the two weights exchanged.
_create_weighted_forward_action_swapped(onebox_target_group, onebox_weight, fleet_target_group, fleet_weight) ==
    << [target_group |-> onebox_target_group, weight |-> fleet_weight],
       [target_group |-> fleet_target_group, weight |-> onebox_weight] >>

\* ReverseProxy._create_weighted_forward_action
_create_weighted_forward_action(onebox_target_group, onebox_weight, fleet_target_group, fleet_weight) ==
    << [target_group |-> onebox_target_group, weight |-> onebox_weight],
       [target_group |-> fleet_target_group, weight |-> fleet_weight] >>

\* ReverseProxy._create_alb: one HTTP listener whose default action is the
\* weighted forward over the two groups.
_create_alb(t) ==
    [t EXCEPT !.listener =
        _create_weighted_forward_action(
            t.onebox_target_group, ONEBOX_WEIGHT,
            t.fleet_target_group, FLEET_WEIGHT)]

ReverseProxy__init__(t) ==
    LET t1 == [_create_target_group(t, ONEBOX, LB_HEALTH_CHECK_PATH,
                                    LB_HEALTH_CHECK_TIMEOUT)
                 EXCEPT !.onebox_target_group = ONEBOX \o TARGET_GROUP]
        t2 == [_create_target_group(t1, FLEET, LB_HEALTH_CHECK_PATH,
                                    LB_HEALTH_CHECK_TIMEOUT)
                 EXCEPT !.fleet_target_group = FLEET \o TARGET_GROUP]
    IN  _create_alb(t2)

\* Compute._generate_ecs_cluster_name
_generate_ecs_cluster_name(t) ==
    ECS_CLUSTER_NAME_TEMPLATE(APP_NAME, split_last(t.stack_name, "-"))

\* Compute._generate_ecs_service_name
_generate_ecs_service_name(stage) == ECS_SERVICE_NAME_TEMPLATE(APP_NAME, stage)

\* Compute._create_bootstrap_container_image
_create_bootstrap_container_image ==
    [source |-> "registry", name |-> BOOTSTRAP_CONTAINER_IMAGE]

\* Compute._create_runtime_container_image
_create_runtime_container_image ==
    [source |-> "asset", name |-> RUNTIME_DIRECTORY_RELATIVE_PATH]

\* The variant that always builds the runtime image.
_get_task_container_image_always_runtime(t) == _create_runtime_container_image

\* The variant that compares without lower().
_get_task_container_image_case_sensitive(t) ==
    IF str_in(PROD, t.stack_name)
    THEN _create_bootstrap_container_image
    ELSE _create_runtime_container_image

\* Compute._get_task_container_image
_get_task_container_image(t) ==
    IF str_in(lower(PROD), lower(t.stack_name))
    THEN _create_bootstrap_container_image
    ELSE _create_runtime_container_image

\* Compute._create_task_definition with _add_container_to_task_definition:
\* appends one task definition holding one container.
_create_task_definition(t, container_parameters) ==
    [t EXCEPT !.task_definitions =
        Append(@, [container_name |-> container_parameters.name,
                   image |-> container_parameters.image,
                   cpu |-> container_parameters.cpu,
                   memory_limit_mib |-> container_parameters.memory,
                   container_port |-> container_parameters.port])]

\* Compute._create_autoscaled_fargate_service with
\* _configure_service_autoscaling.
_create_autoscaled_fargate_service(t, ecs_service_parameters) ==
    [t EXCEPT !.services =
        Put(@, ecs_service_parameters.name,
            [task_definition |-> ecs_service_parameters.task_definition,
             cluster |-> t.ecs_cluster_name,
             desired_count |-> ecs_service_parameters.autoscaling_parameters.desired_capacity,
             min_capacity |-> ecs_service_parameters.autoscaling_parameters.min_capacity,
             max_capacity |-> ecs_service_parameters.autoscaling_parameters.max_capacity,
             target_utilization_percent |->
                 ecs_service_parameters.autoscaling_parameters.target_cpu_utilization,
             deployment_alarms |-> {},
             alarm_behavior |-> "NONE"])]

\* Compute._create_and_configure_ecs_service: the service, registered as a
\* target of the given group.
_create_and_configure_ecs_service(t, target_group, ecs_service_parameters) ==
    [_create_autoscaled_fargate_service(t, ecs_service_parameters)
        EXCEPT !.target_groups[target_group].targets =
                   @ \cup {ecs_service_parameters.name}]

\* The variant that builds a second task definition for the fleet service.
Compute__init__two_task_definitions(t) ==
    LET m1 == [t EXCEPT !.ecs_cluster_name = _generate_ecs_cluster_name(t)]
        m_container_parameters ==
            [image |-> _get_task_container_image(m1), name |-> APP_NAME,
             cpu |-> CPU, memory |-> MEMORY, port |-> PORT]
        m2 == _create_task_definition(m1, m_container_parameters)
        m_onebox_parameters ==
            [name |-> _generate_ecs_service_name(ONEBOX),
             task_definition |-> Len(m2.task_definitions),
             autoscaling_parameters |-> ONEBOX_AUTOSCALING_PARAMETERS]
        m3 == [_create_and_configure_ecs_service(
                   m2, m2.onebox_target_group, m_onebox_parameters)
                 EXCEPT !.onebox_service = m_onebox_parameters.name]
        m4 == _create_task_definition(m3, m_container_parameters)
        m_fleet_parameters ==
            [name |-> _generate_ecs_service_name(FLEET),
             task_definition |-> Len(m4.task_definitions),
             autoscaling_parameters |-> FLEET_AUTOSCALING_PARAMETERS]
        m5 == [_create_and_configure_ecs_service(
                   m4, m4.fleet_target_group, m_fleet_parameters)
                 EXCEPT !.fleet_service = m_fleet_parameters.name]
    IN  [m5 EXCEPT !.runtime_container_image_asset = "RuntimeContainerImageAsset"]

\* Compute.__init__
Compute__init__(t) ==
    LET t1 == [t EXCEPT !.ecs_cluster_name = _generate_ecs_cluster_name(t)]
        container_parameters ==
            [image |-> _get_task_container_image(t1), name |-> APP_NAME,
             cpu |-> CPU, memory |-> MEMORY, port |-> PORT]
        t2 == _create_task_definition(t1, container_parameters)
        task_definition == Len(t2.task_definitions)
        onebox_ecs_service_parameters ==
            [name |-> _generate_ecs_service_name(ONEBOX),
             task_definition |-> task_definition,
             autoscaling_parameters |-> ONEBOX_AUTOSCALING_PARAMETERS]
        t3 == [_create_and_configure_ecs_service(
                   t2, t2.onebox_target_group, onebox_ecs_service_parameters)
                 EXCEPT !.onebox_service = onebox_ecs_service_parameters.name]
        fleet_ecs_service_parameters ==
            [name |-> _generate_ecs_service_name(FLEET),
             task_definition |-> task_definition,
             autoscaling_parameters |-> FLEET_AUTOSCALING_PARAMETERS]
        t4 == [_create_and_configure_ecs_service(
                   t3, t3.fleet_target_group, fleet_ecs_service_parameters)
                 EXCEPT !.fleet_service = fleet_ecs_service_parameters.name]
    IN  [t4 EXCEPT !.runtime_container_image_asset = "RuntimeContainerImageAsset"]

\* The variant that registers the alarm without the rollback behaviour.
ComputeDeploymentMonitoring__init__fail_on_alarm(t, id_, target_group, target_service) ==
    [t EXCEPT
       !.alarms = Put(@, <<id_, "TargetResponseTime-Alarm">>,
            [target_group |-> target_group,
             metric_name |-> TARGET_RESPONSE_TIME_METRIC_ALARM_PARAMETERS.metric_name,
             statistic |-> TARGET_RESPONSE_TIME_METRIC_ALARM_PARAMETERS.statistic,
             period |-> TARGET_RESPONSE_TIME_METRIC_ALARM_PARAMETERS.period,
             threshold |-> TARGET_RESPONSE_TIME_METRIC_ALARM_PARAMETERS.threshold,
             evaluation_periods |->
                 TARGET_RESPONSE_TIME_METRIC_ALARM_PARAMETERS.evaluation_period,
             datapoints_to_alarm |->
                 TARGET_RESPONSE_TIME_METRIC_ALARM_PARAMETERS.datapoints_to_alarm]),
       !.services[target_service].deployment_alarms =
            @ \cup {<<id_, "TargetResponseTime-Alarm">>},
       !.services[target_service].alarm_behavior = "FAIL_ON_ALARM"]

\* ComputeDeploymentMonitoring.__init__: the alarm on the group's latency
\* metric, registered with the service for rollback.
ComputeDeploymentMonitoring__init__(t, id_, target_group, target_service) ==
    LET p == TARGET_RESPONSE_TIME_METRIC_ALARM_PARAMETERS
        alarm_name == <<id_, "TargetResponseTime-Alarm">>
    IN  [t EXCEPT
           !.alarms = Put(@, alarm_name,
                [target_group |-> target_group,
                 metric_name |-> p.metric_name, statistic |-> p.statistic,
                 period |-> p.period, threshold |-> p.threshold,
                 evaluation_periods |-> p.evaluation_period,
                 datapoints_to_alarm |-> p.datapoints_to_alarm]),
           !.services[target_service].deployment_alarms = @ \cup {alarm_name},
           !.services[target_service].alarm_behavior = "ROLLBACK_ON_ALARM"]

\* ServiceStack._create_outputs
_create_outputs(t) ==
    [t EXCEPT !.outputs =
        [WebAPIEndpoint |-> <<"ALB", "load_balancer_dns_name">>,
         RuntimeContainerImageUrl |-> <<t.runtime_container_image_asset, "image_uri">>]]

\* ServiceStack.__init__, construct by construct.
SynthSteps == <<"ReverseProxy", "Compute", "OneboxComputeDeploymentMonitoring",
                "FleetComputeDeploymentMonitoring", "Outputs">>

\* The variant that hands the fleet monitoring the onebox service.
ServiceStackStep_crossed(t, construct) ==
    CASE construct = "ReverseProxy" -> ReverseProxy__init__(t)
      [] construct = "Compute" -> Compute__init__(t)
      [] construct = "OneboxComputeDeploymentMonitoring" ->
            ComputeDeploymentMonitoring__init__(
                t, construct, t.onebox_target_group, t.onebox_service)
      [] construct = "FleetComputeDeploymentMonitoring" ->
            ComputeDeploymentMonitoring__init__(
                t, construct, t.fleet_target_group, t.onebox_service)
      [] construct = "Outputs" -> _create_outputs(t)

ServiceStackStep(t, construct) ==
    CASE construct = "ReverseProxy" -> ReverseProxy__init__(t)
      [] construct = "Compute" -> Compute__init__(t)
      [] construct = "OneboxComputeDeploymentMonitoring" ->
            ComputeDeploymentMonitoring__init__(
                t, construct, t.onebox_target_group, t.onebox_service)
      [] construct = "FleetComputeDeploymentMonitoring" ->
            ComputeDeploymentMonitoring__init__(
                t, construct, t.fleet_target_group, t.fleet_service)
      [] construct = "Outputs" -> _create_outputs(t)

RECURSIVE ServiceStackUpTo(_, _)
ServiceStackUpTo(stack_name, n) ==
    IF n = 0 THEN Stack(stack_name)
    ELSE ServiceStackStep(ServiceStackUpTo(stack_name, n - 1), SynthSteps[n])

ServiceStack__init__(stack_name) == ServiceStackUpTo(stack_name, Len(SynthSteps))

\* ------------------------------------------------------- the toolchain stack
\* Step ids. An id is a sequence of text pieces, so that
\* f"EcsDeploy{deployment_stage}" is a concatenation.
SYNTH_STEP == <<"SynthStep">>
DEPLOY_STACK == <<"Deploy">>
GENERATE_IMAGE_DEFINITION_JSON == <<"GenerateImageDefinitionJson">>
ECS_DEPLOY == <<"EcsDeploy">>
EcsDeployOnebox == ECS_DEPLOY \o ONEBOX
EcsDeployFleet == ECS_DEPLOY \o FLEET

\* Step.add_step_dependency: the step's dependency list with one more entry.
add_step_dependency(steps, step, dependency) ==
    [steps EXCEPT ![step].dependencies = Append(@, dependency)]

\* ToolchainStack._create_base_cdk_pipeline: a pipeline whose synth step is
\* SynthStep, with no stage yet.
_create_base_cdk_pipeline ==
    [synth |-> SYNTH_STEP,
     stacks |-> <<>>,
     post |-> <<>>,
     steps |-> [x \in {SYNTH_STEP} |->
                  [kind |-> "CodeBuildStep", dependencies |-> <<>>,
                   env |-> NoObjects, env_from_cfn_outputs |-> NoObjects,
                   primary_output |-> <<>>, input |-> <<>>,
                   ecs_service |-> <<>>]]]

\* The variant that binds IMAGE_URI to the other output of the stack.
_create_image_definition_generation_step_endpoint(service_stack) ==
    [kind |-> "ShellStep", dependencies |-> <<>>,
     env |-> [IMAGE_NAME |-> APP_NAME],
     env_from_cfn_outputs |-> [IMAGE_URI |-> "WebAPIEndpoint"],
     primary_output |-> <<"GenerateImageDefinitionJson">>,
     input |-> <<>>,
     ecs_service |-> <<>>]

\* ToolchainStack._create_image_definition_generation_step: the shell step
\* that writes imagedefinitions.json from IMAGE_NAME and IMAGE_URI into its
\* primary output directory.
_create_image_definition_generation_step(service_stack) ==
    [kind |-> "ShellStep", dependencies |-> <<>>,
     env |-> [IMAGE_NAME |-> APP_NAME],
     env_from_cfn_outputs |-> [IMAGE_URI |-> "RuntimeContainerImageUrl"],
     primary_output |-> GENERATE_IMAGE_DEFINITION_JSON,
     input |-> <<>>,
     ecs_service |-> <<>>]

\* The variant with COLON_RESOURCE_NAME.
Arn_format_colon(cluster_name, service_name) == cluster_name \o <<":">> \o service_name

\* cdk.Arn.format with SLASH_RESOURCE_NAME: the resource name of the service
\* ARN is "<cluster>/<service>".
Arn_format(cluster_name, service_name) == cluster_name \o <<"/">> \o service_name

\* Position of the first separator in s from i on, 0 when there is none.
RECURSIVE find(_, _, _)
find(s, sep, i) ==
    IF i > Len(s) THEN 0
    ELSE IF s[i] = sep THEN i
    ELSE find(s, sep, i + 1)

\* FargateService.from_service_arn_with_cluster: the cluster and service the
\* resource name of the ARN names.
from_service_arn_with_cluster(resource_name) ==
    LET k == find(resource_name, "/", 1)
    IN  [cluster |-> SubSeq(resource_name, 1, k - 1),
         service_name |-> SubSeq(resource_name, k + 1, Len(resource_name))]

\* The variant that imports the onebox service whatever name it is given.
_import_ecs_service_onebox_only(cluster_name, service_name) ==
    from_service_arn_with_cluster(
        Arn_format(cluster_name, ECS_SERVICE_NAME_TEMPLATE(APP_NAME, ONEBOX)))

\* ToolchainStack._import_ecs_service
_import_ecs_service(cluster_name, service_name) ==
    from_service_arn_with_cluster(Arn_format(cluster_name, service_name))

\* The variant that does not add the producer of the input as a dependency.
EcsDeployStep__init__no_producer_dependency(id_, input_, ecs_service) ==
    [kind |-> "EcsDeployStep", dependencies |-> <<>>,
     env |-> NoObjects, env_from_cfn_outputs |-> NoObjects,
     primary_output |-> <<>>, input |-> input_, ecs_service |-> ecs_service]

\* EcsDeployStep.__init__: the step depends on the producer of its input.
EcsDeployStep__init__(id_, input_, ecs_service) ==
    [kind |-> "EcsDeployStep", dependencies |-> <<input_>>,
     env |-> NoObjects, env_from_cfn_outputs |-> NoObjects,
     primary_output |-> <<>>, input |-> input_, ecs_service |-> ecs_service]

\* ToolchainStack._create_ecs_deployment_step
_create_ecs_deployment_step(image_definitions_artifact, cluster_name, service_name, deployment_stage) ==
    EcsDeployStep__init__(ECS_DEPLOY \o deployment_stage,
                          image_definitions_artifact,
                          _import_ecs_service(cluster_name, service_name))

\* The explicit edges of _add_prod_stage_to_pipeline:
\* Image Definition Generation -> Onebox -> Fleet.
\* The variant without the fleet -> onebox edge.
wanted_pipeline_flow_without_fleet_edge(steps) ==
    add_step_dependency(steps, EcsDeployOnebox, GENERATE_IMAGE_DEFINITION_JSON)

\* The variant with the two deployment steps exchanged.
wanted_pipeline_flow_fleet_first(steps) ==
    add_step_dependency(
        add_step_dependency(steps, EcsDeployFleet, GENERATE_IMAGE_DEFINITION_JSON),
        EcsDeployOnebox, EcsDeployFleet)

wanted_pipeline_flow(steps) ==
    add_step_dependency(
        add_step_dependency(steps, EcsDeployOnebox, GENERATE_IMAGE_DEFINITION_JSON),
        EcsDeployFleet, EcsDeployOnebox)

\* ToolchainStack._add_prod_stage_to_pipeline
_add_prod_stage_to_pipeline(pipeline) ==
    LET prod_service_stack == ServiceStack__init__(PROD_STACK_NAME)
        image_definitions_generation_step ==
            _create_image_definition_generation_step(prod_service_stack)
        cluster_name == prod_service_stack.ecs_cluster_name
        onebox_deployment_step ==
            _create_ecs_deployment_step(
                image_definitions_generation_step.primary_output, cluster_name,
                prod_service_stack.onebox_service, ONEBOX)
        fleet_deployment_step ==
            _create_ecs_deployment_step(
                image_definitions_generation_step.primary_output, cluster_name,
                prod_service_stack.fleet_service, FLEET)
        created ==
            Put(Put(Put(pipeline.steps,
                        GENERATE_IMAGE_DEFINITION_JSON, image_definitions_generation_step),
                    EcsDeployOnebox, onebox_deployment_step),
                EcsDeployFleet, fleet_deployment_step)
    IN  [pipeline EXCEPT
           !.stacks = Append(@, PROD_STACK_NAME),
           !.steps = wanted_pipeline_flow(created),
           !.post = @ \o <<GENERATE_IMAGE_DEFINITION_JSON, EcsDeployOnebox,
                           EcsDeployFleet>>]

ToolchainStack__init__ == _add_prod_stage_to_pipeline(_create_base_cdk_pipeline)

\* The steps of the pipeline: the synth step, the deployment of the stage's
\* stack, and the steps of the step table.
Steps(pipeline) == {DEPLOY_STACK} \cup DOMAIN pipeline.steps

\* What step s waits for: the stack deployment waits for the synth step; a
\* post step and a step reading a stack output wait for the stack
\* deployment; every step waits for its declared dependencies.
DependenciesOf(pipeline, s) ==
    IF s = DEPLOY_STACK THEN {pipeline.synth}
    ELSE {pipeline.steps[s].dependencies[i] :
              i \in 1..Len(pipeline.steps[s].dependencies)}
         \cup (IF (\E i \in 1..Len(pipeline.post) : pipeline.post[i] = s)
                  \/ DOMAIN pipeline.steps[s].env_from_cfn_outputs # {}
               THEN {DEPLOY_STACK} ELSE {})

\* The run order the pipeline gives step s: one more than the greatest run
\* order among the steps it waits for.
Max(S) == CHOOSE m \in S : \A n \in S : n <= m

RECURSIVE RunOrder(_, _)
RunOrder(pipeline, s) ==
    IF DependenciesOf(pipeline, s) = {} THEN 1
    ELSE 1 + Max({RunOrder(pipeline, x) : x \in DependenciesOf(pipeline, s)})

\* The steps that wait, directly or not, for step s.
RECURSIVE Downstream(_, _, _)
Downstream(pipeline, s, n) ==
    IF n = 0 THEN {}
    ELSE LET direct == {x \in Steps(pipeline) : s \in DependenciesOf(pipeline, x)}
         IN  direct \cup UNION {Downstream(pipeline, x, n - 1) : x \in direct}

\* -------------------------------------------------------------------- state
VARIABLES
    stack_name,      \* the name of the stack being synthesized
    synth_pc,        \* how many constructs ServiceStack.__init__ has added
    template,        \* the stack synthesized so far
    pipeline,        \* the pipeline the toolchain stack declares
    toolchain_pc,    \* the statement ToolchainStack.__init__ executes next
    run_order,       \* the run order the pipeline gives each step
    execution,       \* number of pipeline executions started
    commit,          \* what the source revision of the execution builds
    step_status,     \* status of each pipeline step in the execution
    stack,           \* the deployed Prod stack: task definition image, outputs
    alb_listener,    \* the deployed listener's weighted forward
    artifact,        \* imagedefinitions.json of the execution
    service,         \* per deployed service: image, previous image, rollout state, tasks
    alarm,           \* state of each deployment alarm
    image_at_start,  \* history: the services' images when the execution started
    image_after_stack, \* history: the images when the stack deployment completed
    rollout_clean,   \* history: no deployment step of the latest rollout was
                     \* rejected or rolled back
    deployed         \* history: the image a deployment step of the execution
                     \* gave each service

vars == <<stack_name, synth_pc, template, pipeline, toolchain_pc, run_order, execution, commit, step_status, stack,
          alb_listener, artifact, service, alarm, image_at_start,
          image_after_stack, rollout_clean, deployed>>

synth_vars == <<stack_name, synth_pc, template, pipeline, toolchain_pc, run_order>>
runtime_vars == <<execution, commit, step_status, stack, alb_listener, artifact,
                  service, alarm, image_at_start, image_after_stack,
                  rollout_clean, deployed>>

\* The stack of the pipeline's Prod stage.
ProdServiceStack == ServiceStack__init__(PROD_STACK_NAME)

\* The run order of every step of a pipeline.
RunOrders(p) == [s \in Steps(p) |-> RunOrder(p, s)]

NoImage == "none"
\* Image URIs the runtime image asset of a source revision can resolve to.
RuntimeImages == {"web_api@1", "web_api@2"}
\* Values of BOOTSTRAP_CONTAINER_IMAGE a source revision can carry.
BootstrapImages == {BOOTSTRAP_CONTAINER_IMAGE, "nginx:changed"}
\* Task counts the CPU tracking policy can ask for: below and above every
\* registered range.
ScalingDemands == {0, 2000}
\* The same, with values inside and at the ends of both ranges.
CapacityDemands == (0..12) \cup {500, 999, 1000, 1001, 2000}
\* Characters of the generated stack names.
NameAlphabet == {"P", "p", "r", "o", "D", "d", "-"}
\* Stack names: the two the application uses, and every name of up to
\* MaxNameLen characters that starts with a letter.
StackNames ==
    {SANDBOX_STACK_NAME, PROD_STACK_NAME}
    \cup {n \in UNION {[1..k -> NameAlphabet] : k \in 1..MaxNameLen} : n[1] # "-"}

ServiceNames == DOMAIN ProdServiceStack.services
AlarmNames == DOMAIN ProdServiceStack.alarms

Images(svc) == [v \in DOMAIN svc |-> svc[v].image]

RuntimeInit ==
    /\ execution = 0
    /\ commit = [runtime_image |-> NoImage, bootstrap_image |-> NoImage]
    /\ step_status = [s \in Steps(pipeline) |-> "pending"]
    /\ stack = [bootstrap_image |-> NoImage,
                outputs |-> [RuntimeContainerImageUrl |-> NoImage]]
    /\ alb_listener = <<>>
    /\ artifact = <<>>
    /\ service = [v \in ServiceNames |->
                    [image |-> NoImage, previous_image |-> NoImage,
                     rollout_state |-> "COMPLETED", task_count |-> 0]]
    /\ alarm = [a \in AlarmNames |-> "OK"]
    /\ image_at_start = [v \in ServiceNames |-> NoImage]
    /\ image_after_stack = [v \in ServiceNames |-> NoImage]
    /\ rollout_clean = TRUE
    /\ deployed = [v \in ServiceNames |-> NoImage]

\* After synthesis of the application; nothing is deployed yet.
Init ==
    /\ stack_name = PROD_STACK_NAME
    /\ synth_pc = Len(SynthSteps)
    /\ template = ProdServiceStack
    /\ pipeline = ToolchainStack__init__
    /\ toolchain_pc = "done"
    /\ run_order = RunOrders(pipeline)
    /\ RuntimeInit

\* ------------------------------------------------------ pipeline execution
Running(s) == step_status[s] = "running"

IsEcsDeployStep(s) ==
    IF s = DEPLOY_STACK THEN FALSE ELSE pipeline.steps[s].kind = "EcsDeployStep"

\* No step of the execution is running and none can start any more.
ExecutionOver ==
    /\ \A s \in Steps(pipeline) : ~Running(s)
    /\ \/ \E s \in Steps(pipeline) : step_status[s] = "failed"
       \/ \A s \in Steps(pipeline) : step_status[s] = "succeeded"

\* The variant in which a step also waits for the steps of its own run order.
CanStart_waits_for_own_run_order(s) ==
    /\ execution > 0
    /\ step_status[s] = "pending"
    /\ \A d \in Steps(pipeline) :
          run_order[d] <= run_order[s] => step_status[d] = "succeeded"

\* The pipeline starts step s once every step of a lower run order succeeded.
CanStart(s) ==
    /\ execution > 0
    /\ step_status[s] = "pending"
    /\ \A d \in Steps(pipeline) :
          run_order[d] < run_order[s] => step_status[d] = "succeeded"

\* A push to the repository branch starts an execution for a revision.
StartExecution(runtime_image, bootstrap_image) ==
    /\ execution < MaxExecutions
    /\ execution = 0 \/ ExecutionOver
    /\ execution' = execution + 1
    /\ commit' = [runtime_image |-> runtime_image, bootstrap_image |-> bootstrap_image]
    /\ step_status' = [s \in Steps(pipeline) |-> "pending"]
    /\ artifact' = <<>>
    /\ image_at_start' = Images(service)
    /\ deployed' = [v \in DOMAIN service |-> NoImage]
    /\ UNCHANGED <<synth_vars, stack, alb_listener, service, alarm,
                   image_after_stack, rollout_clean>>

\* A step that is not an ECS deployment starts.
StartStep(s) ==
    /\ ~IsEcsDeployStep(s)
    /\ CanStart(s)
    /\ step_status' = [step_status EXCEPT ![s] = "running"]
    /\ UNCHANGED <<synth_vars, execution, commit, stack, alb_listener, artifact,
                   service, alarm, image_at_start, image_after_stack, rollout_clean, deployed>>

\* A running step that is not an ECS deployment fails; it changes nothing.
StepFails(s) ==
    /\ ~IsEcsDeployStep(s)
    /\ Running(s)
    /\ step_status' = [step_status EXCEPT ![s] = "failed"]
    /\ UNCHANGED <<synth_vars, execution, commit, stack, alb_listener, artifact,
                   service, alarm, image_at_start, image_after_stack, rollout_clean, deployed>>

SynthSucceeds ==
    /\ Running(pipeline.synth)
    /\ step_status' = [step_status EXCEPT ![pipeline.synth] = "succeeded"]
    /\ UNCHANGED <<synth_vars, execution, commit, stack, alb_listener, artifact,
                   service, alarm, image_at_start, image_after_stack, rollout_clean, deployed>>

\* The value a stack output has once the stack is deployed for a revision:
\* the URI of the revision's runtime image asset, or the load balancer's name.
ResolveOutput(value, revision) ==
    IF value[2] = "image_uri" THEN revision.runtime_image ELSE "alb.dns"

\* The image of the container of the stack's task definition, for a source
\* revision: the revision's BOOTSTRAP_CONTAINER_IMAGE when the template takes
\* the image from the registry, the revision's runtime image asset otherwise.
TaskDefinitionImage(revision) ==
    IF template.task_definitions[1].image.source = "registry"
    THEN revision.bootstrap_image
    ELSE revision.runtime_image

\* The stack deployment completes. The listener and the outputs are those of
\* the template; when the task definition's image differs from the deployed
\* one (first deployment, changed BOOTSTRAP_CONTAINER_IMAGE) every service of
\* the stack is moved to the new task definition at once.
DeployStackSucceeds ==
    /\ Running(DEPLOY_STACK)
    /\ step_status' = [step_status EXCEPT ![DEPLOY_STACK] = "succeeded"]
    /\ stack' = [bootstrap_image |-> TaskDefinitionImage(commit),
                 outputs |-> [k \in DOMAIN template.outputs |->
                                ResolveOutput(template.outputs[k], commit)]]
    /\ alb_listener' = template.listener
    /\ service' =
          IF stack.bootstrap_image = TaskDefinitionImage(commit) THEN service
          ELSE [v \in DOMAIN service |->
                  [image |-> TaskDefinitionImage(commit),
                   previous_image |-> service[v].image,
                   rollout_state |-> "COMPLETED",
                   task_count |-> template.services[v].desired_count]]
    /\ image_after_stack' = Images(service')
    /\ UNCHANGED <<synth_vars, execution, commit, artifact, alarm,
                   image_at_start, rollout_clean, deployed>>

\* jq -n --arg name $IMAGE_NAME --arg uri $IMAGE_URI '[{name: $name, imageUri: $uri}]'
jq_image_definitions(env) == << [name |-> env.IMAGE_NAME, imageUri |-> env.IMAGE_URI] >>

\* The environment of the shell step: env, and the stack outputs named in
\* env_from_cfn_outputs as the stack deployment published them.
StepEnvironment(step, outputs) ==
    [IMAGE_NAME |-> step.env.IMAGE_NAME,
     IMAGE_URI |-> outputs[step.env_from_cfn_outputs.IMAGE_URI]]

GenerateImageDefinitionSucceeds ==
    /\ Running(GENERATE_IMAGE_DEFINITION_JSON)
    /\ step_status' = [step_status EXCEPT ![GENERATE_IMAGE_DEFINITION_JSON] = "succeeded"]
    /\ artifact' = jq_image_definitions(
                       StepEnvironment(pipeline.steps[GENERATE_IMAGE_DEFINITION_JSON],
                                       stack.outputs))
    /\ UNCHANGED <<synth_vars, execution, commit, stack, alb_listener, service,
                   alarm, image_at_start, image_after_stack, rollout_clean, deployed>>

\* ---------------------------------------------------------- ECS deployments
\* The deployed services the step's imported service denotes.
TargetServices(s) ==
    {v \in DOMAIN service :
        /\ v = pipeline.steps[s].ecs_service.service_name
        /\ template.services[v].cluster = pipeline.steps[s].ecs_service.cluster
        /\ service[v].image # NoImage}

\* The name of the container of the services' task definition.
ContainerName(v) ==
    template.task_definitions[template.services[v].task_definition].container_name

\* EcsDeployStep.produce_action at run time: the deployment action starts and
\* updates its service to the image its input artifact names for the
\* container.
EcsDeployStarts(s) ==
    /\ IsEcsDeployStep(s)
    /\ CanStart(s)
    /\ step_status[pipeline.steps[s].input] = "succeeded"
    /\ \E v \in TargetServices(s) :
          /\ Len(artifact) = 1
          /\ artifact[1].name = ContainerName(v)
          /\ service' = [service EXCEPT
                ![v].previous_image = service[v].image,
                ![v].image = artifact[1].imageUri,
                ![v].rollout_state = "IN_PROGRESS"]
          /\ deployed' = [deployed EXCEPT ![v] = artifact[1].imageUri]
    /\ step_status' = [step_status EXCEPT ![s] = "running"]
    /\ rollout_clean' =
          IF \A x \in Steps(pipeline) : IsEcsDeployStep(x) => step_status[x] = "pending"
          THEN TRUE ELSE rollout_clean
    /\ UNCHANGED <<synth_vars, execution, commit, stack, alb_listener, artifact,
                   alarm, image_at_start, image_after_stack>>

\* The deployment action fails before it has updated its service.
EcsDeployRejected(s) ==
    /\ IsEcsDeployStep(s)
    /\ CanStart(s)
    /\ step_status' = [step_status EXCEPT ![s] = "failed"]
    /\ rollout_clean' = FALSE
    /\ UNCHANGED <<synth_vars, execution, commit, stack, alb_listener, artifact,
                   service, alarm, image_at_start, image_after_stack, deployed>>

\* The deployment reaches its steady state on the new image.
EcsDeployCompletes(s) ==
    /\ IsEcsDeployStep(s)
    /\ Running(s)
    /\ \E v \in TargetServices(s) :
          /\ service[v].rollout_state = "IN_PROGRESS"
          /\ service' = [service EXCEPT ![v].rollout_state = "COMPLETED"]
    /\ step_status' = [step_status EXCEPT ![s] = "succeeded"]
    /\ UNCHANGED <<synth_vars, execution, commit, stack, alb_listener, artifact,
                   alarm, image_at_start, image_after_stack, rollout_clean, deployed>>

\* The action of a deployment that was rolled back ends; the pipeline may
\* record it either way.
EcsDeployEndsRolledBack(s, outcome) ==
    /\ IsEcsDeployStep(s)
    /\ Running(s)
    /\ \E v \in TargetServices(s) : service[v].rollout_state = "ROLLED_BACK"
    /\ step_status' = [step_status EXCEPT ![s] = outcome]
    /\ UNCHANGED <<synth_vars, execution, commit, stack, alb_listener, artifact,
                   service, alarm, image_at_start, image_after_stack, rollout_clean, deployed>>

\* The variant in which any alarm reverts any deployment in flight.
RollsBack_any_alarm(a) ==
    {v \in DOMAIN service : service[v].rollout_state = "IN_PROGRESS"}

\* What enable_deployment_alarms(..., ROLLBACK_ON_ALARM) asks of the container
\* service: the services whose deployment in flight alarm a reverts.
RollsBack(a) ==
    {v \in DOMAIN service :
        /\ a \in template.services[v].deployment_alarms
        /\ template.services[v].alarm_behavior = "ROLLBACK_ON_ALARM"
        /\ service[v].rollout_state = "IN_PROGRESS"}

\* The latency alarm goes from OK to ALARM.
AlarmBreach(a) ==
    /\ alarm[a] = "OK"
    /\ alarm' = [alarm EXCEPT ![a] = "ALARM"]
    /\ service' = [v \in DOMAIN service |->
                     IF v \in RollsBack(a)
                     THEN [service[v] EXCEPT !.image = service[v].previous_image,
                                             !.rollout_state = "ROLLED_BACK"]
                     ELSE service[v]]
    /\ rollout_clean' = IF RollsBack(a) # {} THEN FALSE ELSE rollout_clean
    /\ UNCHANGED <<synth_vars, execution, commit, step_status, stack, alb_listener,
                   artifact, image_at_start, image_after_stack, deployed>>

AlarmRecovers(a) ==
    /\ alarm[a] = "ALARM"
    /\ alarm' = [alarm EXCEPT ![a] = "OK"]
    /\ UNCHANGED <<synth_vars, execution, commit, step_status, stack, alb_listener,
                   artifact, service, image_at_start, image_after_stack,
                   rollout_clean, deployed>>

\* -------------------------------------------------------------- autoscaling
Clamp(n, lo, hi) == IF n < lo THEN lo ELSE IF n > hi THEN hi ELSE n

\* The variant that registers the fleet's range for every service.
_configure_service_autoscaling_fleet_range(v) ==
    [min_capacity |-> FLEET_AUTOSCALING_PARAMETERS.min_capacity,
     max_capacity |-> FLEET_AUTOSCALING_PARAMETERS.max_capacity]

\* Compute._configure_service_autoscaling: the capacity range
\* auto_scale_task_count registers for the service.
_configure_service_autoscaling(v) ==
    [min_capacity |-> template.services[v].min_capacity,
     max_capacity |-> template.services[v].max_capacity]

\* The task count the autoscaler sets when its CPU tracking policy asks for
\* `wanted` tasks: the registered range limits it.
ScaledTaskCount(v, wanted) ==
    Clamp(wanted, _configure_service_autoscaling(v).min_capacity,
                  _configure_service_autoscaling(v).max_capacity)

AutoScale(v, wanted) ==
    /\ service[v].image # NoImage
    /\ ScaledTaskCount(v, wanted) # service[v].task_count
    /\ service' = [service EXCEPT ![v].task_count = ScaledTaskCount(v, wanted)]
    /\ UNCHANGED <<synth_vars, execution, commit, step_status, stack, alb_listener,
                   artifact, alarm, image_at_start, image_after_stack,
                   rollout_clean, deployed>>

\* ------------------------------------------------------------ specification
Next ==
    \/ \E r \in RuntimeImages, b \in BootstrapImages : StartExecution(r, b)
    \/ \E s \in Steps(pipeline) : StartStep(s)
    \/ \E s \in Steps(pipeline) : StepFails(s)
    \/ SynthSucceeds
    \/ DeployStackSucceeds
    \/ GenerateImageDefinitionSucceeds
    \/ \E s \in Steps(pipeline) : EcsDeployStarts(s)
    \/ \E s \in Steps(pipeline) : EcsDeployRejected(s)
    \/ \E s \in Steps(pipeline) : EcsDeployCompletes(s)
    \/ \E s \in Steps(pipeline), o \in {"succeeded", "failed"} :
          EcsDeployEndsRolledBack(s, o)
    \/ \E a \in DOMAIN alarm : AlarmBreach(a)
    \/ \E a \in DOMAIN alarm : AlarmRecovers(a)
    \/ \E v \in DOMAIN service, n \in ScalingDemands : AutoScale(v, n)

Spec == Init /\ [][Next]_vars

\* The pipeline engine starts a step that can start, and a step that runs
\* ends: the engine bounds the time an action may take.
Fairness ==
    /\ \A s \in Steps(ToolchainStack__init__) :
          /\ WF_vars(StartStep(s))
          /\ WF_vars(StepFails(s) \/ (s = SYNTH_STEP /\ SynthSucceeds)
                        \/ (s = DEPLOY_STACK /\ DeployStackSucceeds)
                        \/ (s = GENERATE_IMAGE_DEFINITION_JSON
                            /\ GenerateImageDefinitionSucceeds))
          /\ WF_vars(EcsDeployStarts(s) \/ EcsDeployRejected(s))
          /\ WF_vars(EcsDeployCompletes(s)
                        \/ EcsDeployEndsRolledBack(s, "succeeded")
                        \/ EcsDeployEndsRolledBack(s, "failed"))

SpecFair == Spec /\ Fairness

\* ------------------------------------------------ synthesis of a service stack
\* ServiceStack.__init__ adds its next construct to the stack.
AddConstruct(construct) ==
    /\ synth_pc < Len(SynthSteps)
    /\ SynthSteps[synth_pc + 1] = construct
    /\ template' = ServiceStackStep(template, construct)
    /\ synth_pc' = synth_pc + 1
    /\ UNCHANGED <<stack_name, pipeline, toolchain_pc, run_order, runtime_vars>>

SynthInit ==
    /\ stack_name \in StackNames
    /\ synth_pc = 0
    /\ template = Stack(stack_name)
    /\ pipeline = ToolchainStack__init__
    /\ toolchain_pc = "done"
    /\ run_order = RunOrders(pipeline)
    /\ RuntimeInit

SynthNext ==
    \/ AddConstruct("ReverseProxy")
    \/ AddConstruct("Compute")
    \/ AddConstruct("OneboxComputeDeploymentMonitoring")
    \/ AddConstruct("FleetComputeDeploymentMonitoring")
    \/ AddConstruct("Outputs")

SpecSynth == SynthInit /\ [][SynthNext]_vars

\* -------------------------------------- construction of the toolchain stack
\* ToolchainStack.__init__, statement by statement, after app.py has built
\* the Sandbox service stack. pipeline.steps holds the steps created so far,
\* pipeline.post those added to the Prod stage.
None == <<>>

\* What ShellStep.primary_output can be: the step's output file set, or None.
PrimaryOutputs == {GENERATE_IMAGE_DEFINITION_JSON, None}

NoPipeline == [synth |-> None, stacks |-> <<>>, post |-> <<>>, steps |-> NoObjects]

\* The variant that never finds the primary output missing.
primary_output_is_None_never(step) == FALSE

\* image_definitions_generation_step.primary_output is None
primary_output_is_None(step) == step.primary_output = None

CreateBasePipeline ==
    /\ toolchain_pc = "create_base_cdk_pipeline"
    /\ pipeline' = _create_base_cdk_pipeline
    /\ toolchain_pc' = "prod_service_stack"
    /\ UNCHANGED <<stack_name, synth_pc, template, run_order, runtime_vars>>

CreateProdServiceStack ==
    /\ toolchain_pc = "prod_service_stack"
    /\ stack_name' = PROD_STACK_NAME
    /\ template' = ServiceStack__init__(PROD_STACK_NAME)
    /\ toolchain_pc' = "add_stage"
    /\ UNCHANGED <<synth_pc, pipeline, run_order, runtime_vars>>

AddStage ==
    /\ toolchain_pc = "add_stage"
    /\ pipeline' = [pipeline EXCEPT !.stacks = Append(@, stack_name)]
    /\ toolchain_pc' = "create_image_definition_generation_step"
    /\ UNCHANGED <<stack_name, synth_pc, template, run_order, runtime_vars>>

CreateImageDefinitionGenerationStep(primary_output) ==
    /\ toolchain_pc = "create_image_definition_generation_step"
    /\ pipeline' = [pipeline EXCEPT !.steps =
          Put(@, GENERATE_IMAGE_DEFINITION_JSON,
              [_create_image_definition_generation_step(template)
                  EXCEPT !.primary_output = primary_output])]
    /\ toolchain_pc' = "check_primary_output"
    /\ UNCHANGED <<stack_name, synth_pc, template, run_order, runtime_vars>>

\* if ...primary_output is None: raise ValueError(...)
CheckPrimaryOutput ==
    /\ toolchain_pc = "check_primary_output"
    /\ toolchain_pc' =
          IF primary_output_is_None(pipeline.steps[GENERATE_IMAGE_DEFINITION_JSON])
          THEN "raised" ELSE "onebox_deployment_step"
    /\ UNCHANGED <<stack_name, synth_pc, template, pipeline, run_order, runtime_vars>>

CreateOneboxDeploymentStep ==
    /\ toolchain_pc = "onebox_deployment_step"
    /\ pipeline' = [pipeline EXCEPT !.steps =
          Put(@, EcsDeployOnebox,
              _create_ecs_deployment_step(
                  pipeline.steps[GENERATE_IMAGE_DEFINITION_JSON].primary_output,
                  template.ecs_cluster_name, template.onebox_service, ONEBOX))]
    /\ toolchain_pc' = "fleet_deployment_step"
    /\ UNCHANGED <<stack_name, synth_pc, template, run_order, runtime_vars>>

CreateFleetDeploymentStep ==
    /\ toolchain_pc = "fleet_deployment_step"
    /\ pipeline' = [pipeline EXCEPT !.steps =
          Put(@, EcsDeployFleet,
              _create_ecs_deployment_step(
                  pipeline.steps[GENERATE_IMAGE_DEFINITION_JSON].primary_output,
                  template.ecs_cluster_name, template.fleet_service, FLEET))]
    /\ toolchain_pc' = "add_step_dependency"
    /\ UNCHANGED <<stack_name, synth_pc, template, run_order, runtime_vars>>

AddStepDependencies ==
    /\ toolchain_pc = "add_step_dependency"
    /\ pipeline' = [pipeline EXCEPT !.steps = wanted_pipeline_flow(@)]
    /\ toolchain_pc' = "add_post"
    /\ UNCHANGED <<stack_name, synth_pc, template, run_order, runtime_vars>>

AddPost ==
    /\ toolchain_pc = "add_post"
    /\ pipeline' = [pipeline EXCEPT !.post =
          @ \o <<GENERATE_IMAGE_DEFINITION_JSON, EcsDeployOnebox, EcsDeployFleet>>]
    /\ toolchain_pc' = "synth"
    /\ UNCHANGED <<stack_name, synth_pc, template, run_order, runtime_vars>>

\* app.synth(): the pipeline is synthesized with its run orders; no execution
\* has started.
AppSynth ==
    /\ toolchain_pc = "synth"
    /\ run_order' = RunOrders(pipeline)
    /\ step_status' = [s \in Steps(pipeline) |-> "pending"]
    /\ toolchain_pc' = "done"
    /\ UNCHANGED <<stack_name, synth_pc, template, pipeline, execution, commit,
                   stack, alb_listener, artifact, service, alarm, image_at_start,
                   image_after_stack, rollout_clean, deployed>>

\* app.py has built the Sandbox service stack.
AppInit ==
    /\ stack_name = SANDBOX_STACK_NAME
    /\ synth_pc = Len(SynthSteps)
    /\ template = ServiceStack__init__(SANDBOX_STACK_NAME)
    /\ pipeline = NoPipeline
    /\ toolchain_pc = "create_base_cdk_pipeline"
    /\ run_order = NoObjects
    /\ execution = 0
    /\ commit = [runtime_image |-> NoImage, bootstrap_image |-> NoImage]
    /\ step_status = NoObjects
    /\ stack = [bootstrap_image |-> NoImage,
                outputs |-> [RuntimeContainerImageUrl |-> NoImage]]
    /\ alb_listener = <<>>
    /\ artifact = <<>>
    /\ service = [v \in ServiceNames |->
                    [image |-> NoImage, previous_image |-> NoImage,
                     rollout_state |-> "COMPLETED", task_count |-> 0]]
    /\ alarm = [a \in AlarmNames |-> "OK"]
    /\ image_at_start = [v \in ServiceNames |-> NoImage]
    /\ image_after_stack = [v \in ServiceNames |-> NoImage]
    /\ rollout_clean = TRUE
    /\ deployed = [v \in ServiceNames |-> NoImage]

\* The application is synthesized; once it is, the pipeline runs.
AppNext ==
    \/ CreateBasePipeline
    \/ CreateProdServiceStack
    \/ AddStage
    \/ \E primary_output \in PrimaryOutputs :
          CreateImageDefinitionGenerationStep(primary_output)
    \/ CheckPrimaryOutput
    \/ CreateOneboxDeploymentStep
    \/ CreateFleetDeploymentStep
    \/ AddStepDependencies
    \/ AddPost
    \/ AppSynth
    \/ (toolchain_pc = "done" /\ Next)

SpecApp == AppInit /\ [][AppNext]_vars

\* ------------------------------------------- the autoscaler on a deployed stack
ScalingNext ==
    \/ \E r \in RuntimeImages, b \in BootstrapImages : StartExecution(r, b)
    \/ \E s \in Steps(pipeline) : StartStep(s)
    \/ \E s \in Steps(pipeline) : StepFails(s)
    \/ SynthSucceeds
    \/ DeployStackSucceeds
    \/ \E v \in DOMAIN service, n \in CapacityDemands : AutoScale(v, n)

SpecScaling == Init /\ [][ScalingNext]_vars

\* =============================================================== properties
OneboxService == template.onebox_service
FleetService == template.fleet_service
OneboxAlarm == <<"OneboxComputeDeploymentMonitoring", "TargetResponseTime-Alarm">>
FleetAlarm == <<"FleetComputeDeploymentMonitoring", "TargetResponseTime-Alarm">>

\* C1: the fleet deployment step never leaves "pending" before the onebox
\* deployment step has succeeded, and the fleet step's dependency list names
\* the onebox step.
C1_FleetAfterOnebox ==
    /\ step_status[EcsDeployFleet] # "pending"
          => step_status[EcsDeployOnebox] = "succeeded"
    /\ \E i \in 1..Len(pipeline.steps[EcsDeployFleet].dependencies) :
          pipeline.steps[EcsDeployFleet].dependencies[i] = EcsDeployOnebox

C1_Witness == step_status[EcsDeployFleet] = "running"

StepOrder == <<SYNTH_STEP, DEPLOY_STACK, GENERATE_IMAGE_DEFINITION_JSON,
               EcsDeployOnebox, EcsDeployFleet>>

\* C2: the five steps run in the order Synth, DeployStack,
\* GenerateImageDefinitionJson, EcsDeployOnebox, EcsDeployFleet: a step has
\* left "pending" only if the step before it has succeeded, and no two steps
\* run at the same time.
C2_StrictTotalOrder ==
    /\ Steps(pipeline) = {StepOrder[i] : i \in 1..Len(StepOrder)}
    /\ \A i \in 1..(Len(StepOrder) - 1) :
          step_status[StepOrder[i + 1]] # "pending"
              => step_status[StepOrder[i]] = "succeeded"
    /\ \A s, t \in Steps(pipeline) : Running(s) /\ Running(t) => s = t

C2_Witness == \A s \in Steps(pipeline) : step_status[s] = "succeeded"

\* C3 (as amended): when a step has failed, every step that waits for it,
\* directly or not, is still pending; when the onebox deployment step has
\* failed, the fleet deployment step is pending and the fleet service runs the
\* image it had when the stack deployment of the execution completed.
C3_FailureHaltsDownstream ==
    /\ \A s \in Steps(pipeline) :
          step_status[s] = "failed"
              => \A t \in Downstream(pipeline, s, Len(StepOrder)) :
                    step_status[t] = "pending"
    /\ step_status[EcsDeployOnebox] = "failed"
          => /\ step_status[EcsDeployFleet] = "pending"
             /\ service[FleetService].image = image_after_stack[FleetService]

C3_Witness ==
    /\ step_status[EcsDeployOnebox] = "failed"
    /\ service[OneboxService].rollout_state = "ROLLED_BACK"
    /\ image_at_start[FleetService] # NoImage
    /\ service[FleetService].image # image_at_start[FleetService]

\* C3 as stated: when the onebox deployment step has failed, the fleet step
\* is pending and the fleet service, if it existed before the execution, runs
\* the image it had before the execution.
C3_FleetKeepsImageOfBeforeExecution ==
    (step_status[EcsDeployOnebox] = "failed" /\ image_at_start[FleetService] # NoImage)
        => /\ step_status[EcsDeployFleet] = "pending"
           /\ service[FleetService].image = image_at_start[FleetService]

ImagesDiffer == service[OneboxService].image # service[FleetService].image

\* An execution is between the start of its onebox deployment step and the
\* completion of its fleet deployment step.
InRolloutWindow ==
    /\ step_status[EcsDeployOnebox] \in {"running", "succeeded"}
    /\ step_status[EcsDeployFleet] \in {"pending", "running"}

ServiceAlarm(v) == IF v = OneboxService THEN OneboxAlarm ELSE FleetAlarm

\* C5: when the latency alarm of a service goes from OK to ALARM while a
\* deployment of that service is in flight, the service is put back on the
\* image it ran before the deployment; a rolled back deployment keeps the
\* service on that image, and never completes on the new one.
C5_RollbackOnAlarm ==
    /\ [][\A v \in DOMAIN service :
            (/\ alarm[ServiceAlarm(v)] = "OK"
             /\ alarm'[ServiceAlarm(v)] = "ALARM"
             /\ service[v].rollout_state = "IN_PROGRESS")
            => /\ service'[v].image = service[v].previous_image
               /\ service'[v].rollout_state = "ROLLED_BACK"]_vars
    /\ [][\A v \in DOMAIN service :
            (service[v].rollout_state = "ROLLED_BACK"
             /\ service'[v].rollout_state \in {"ROLLED_BACK", "COMPLETED"})
            => \/ service'[v] = service[v]
               \/ (service'[v].rollout_state = service[v].rollout_state
                   /\ service'[v].image = service[v].image)
               \/ step_status'[DEPLOY_STACK] # step_status[DEPLOY_STACK]]_vars
    /\ [](\A v \in DOMAIN service :
            service[v].rollout_state = "ROLLED_BACK"
                => service[v].image = service[v].previous_image)

C5_Witness ==
    \E v \in DOMAIN service :
        /\ service[v].rollout_state = "ROLLED_BACK"
        /\ alarm[ServiceAlarm(v)] = "ALARM"
        /\ Len(artifact) = 1
        /\ service[v].image # artifact[1].imageUri
        /\ service[v].image \in RuntimeImages

\* C6: the weighted forward of the listener, in the template and once
\* deployed, is the onebox group with weight 1 followed by the fleet group
\* with weight 99; once deployed, no step of the system changes it.
C6_WeightsFixed ==
    /\ [](/\ template.listener =
                << [target_group |-> ONEBOX \o TARGET_GROUP, weight |-> 1],
                   [target_group |-> FLEET \o TARGET_GROUP, weight |-> 99] >>
          /\ alb_listener # <<>>
                => /\ Len(alb_listener) = 2
                   /\ <<alb_listener[1].weight, alb_listener[2].weight>> = <<1, 99>>
                   /\ alb_listener[1].target_group = template.onebox_target_group
                   /\ alb_listener[2].target_group = template.fleet_target_group
                   /\ alb_listener[1].target_group # alb_listener[2].target_group)
    /\ [][alb_listener # <<>> => alb_listener' = alb_listener]_vars

C6_Witness ==
    /\ alb_listener # <<>>
    /\ execution = 2
    /\ step_status[DEPLOY_STACK] = "succeeded"
    /\ service[FleetService].rollout_state = "ROLLED_BACK"
    /\ service[OneboxService].rollout_state = "COMPLETED"
    /\ service[FleetService].task_count = 1000
    /\ stack.bootstrap_image # BOOTSTRAP_CONTAINER_IMAGE

\* C7: the configured capacities of each service satisfy min <= desired <= max,
\* with the range 3..10 for onebox and 10..1000 for fleet; a service is created
\* with its configured desired capacity as task count; and the task count of a
\* deployed service stays within its range.
C7_CapacityWithinBounds ==
    /\ [](/\ \A v \in DOMAIN template.services :
                /\ template.services[v].min_capacity <= template.services[v].desired_count
                /\ template.services[v].desired_count <= template.services[v].max_capacity
          /\ template.services[OneboxService].min_capacity >= 3
          /\ template.services[FleetService].min_capacity >= 10
          /\ template.services[OneboxService].desired_count =
                ONEBOX_AUTOSCALING_PARAMETERS.desired_capacity
          /\ template.services[FleetService].desired_count =
                FLEET_AUTOSCALING_PARAMETERS.desired_capacity
          /\ service[OneboxService].image # NoImage
                => service[OneboxService].task_count \in 3..10
          /\ service[FleetService].image # NoImage
                => service[FleetService].task_count \in 10..1000)
    /\ [][\A v \in DOMAIN service :
            (service[v].image = NoImage /\ service'[v].image # NoImage)
                => service'[v].task_count = template.services[v].desired_count]_vars

C7_Witness ==
    /\ service[OneboxService].task_count = 10
    /\ service[FleetService].task_count = 1000

\* C8: once Compute is added to a stack, the stack holds exactly one task
\* definition and exactly the onebox and the fleet service, and both services
\* reference that task definition.
C8_OneTaskDefinition ==
    synth_pc >= 2 =>
        /\ Len(template.task_definitions) = 1
        /\ DOMAIN template.services = {template.onebox_service, template.fleet_service}
        /\ template.onebox_service # template.fleet_service
        /\ template.services[template.onebox_service].task_definition = 1
        /\ template.services[template.fleet_service].task_definition
              = template.services[template.onebox_service].task_definition

C8_Witness ==
    /\ synth_pc = Len(SynthSteps)
    /\ stack_name = SANDBOX_STACK_NAME
    /\ Cardinality(DOMAIN template.services) = 2

\* C9: once GenerateImageDefinitionJson has succeeded, the artifact holds
\* exactly one entry; its name is the application name, which is the container
\* name of the task definition; its imageUri is the RuntimeContainerImageUrl
\* output of the deployed stack.
C9_ImageDefinitionArtifact ==
    step_status[GENERATE_IMAGE_DEFINITION_JSON] = "succeeded" =>
        /\ Len(artifact) = 1
        /\ artifact[1].name = APP_NAME
        /\ artifact[1].name = template.task_definitions[1].container_name
        /\ artifact[1].imageUri = stack.outputs.RuntimeContainerImageUrl
        /\ artifact[1].imageUri = commit.runtime_image

C9_Witness ==
    /\ step_status[GENERATE_IMAGE_DEFINITION_JSON] = "succeeded"
    /\ execution = 2
    /\ Len(artifact) = 1
    /\ artifact[1].imageUri = "web_api@2"
    /\ service[OneboxService].image = "web_api@1"

\* The name holds the letters p, r, o, d in a row, in either case.
HasProd(name) ==
    \E i \in 1..(Len(name) - 3) :
        /\ name[i] \in {"P", "p"}
        /\ name[i + 1] \in {"R", "r"}
        /\ name[i + 2] \in {"O", "o"}
        /\ name[i + 3] \in {"D", "d"}

\* C10: the container image of the task definition is the bootstrap registry
\* image when the stack name holds "prod" in any case, and the local build
\* otherwise; the Sandbox stack uses the local build and the -Service-Prod
\* stack the bootstrap image.
C10_ImageSourceByStackName ==
    synth_pc >= 2 =>
        /\ HasProd(stack_name)
              => template.task_definitions[1].image
                    = [source |-> "registry", name |-> "nginx:1.23.3"]
        /\ ~HasProd(stack_name)
              => template.task_definitions[1].image
                    = [source |-> "asset", name |-> "web_api"]
        /\ stack_name = SANDBOX_STACK_NAME
              => template.task_definitions[1].image.source = "asset"
        /\ stack_name = PROD_STACK_NAME
              => template.task_definitions[1].image.source = "registry"

C10_Witness ==
    /\ synth_pc >= 2
    /\ stack_name = <<"p", "r", "o", "D">>
    /\ template.task_definitions[1].image.source = "registry"

\* C11: the onebox and the fleet deployment step read the same artifact of the
\* image definition step; whatever a deployment step of the execution gave a
\* service is the image that artifact names, and once the fleet service has
\* been given an image in the execution, the onebox service was given the
\* same image before.
C11_SameImageReference ==
    /\ pipeline.steps[EcsDeployOnebox].input = pipeline.steps[EcsDeployFleet].input
    /\ \A v \in DOMAIN deployed :
          deployed[v] # NoImage
              => Len(artifact) = 1 /\ deployed[v] = artifact[1].imageUri
    /\ deployed[FleetService] # NoImage
          => deployed[OneboxService] = deployed[FleetService]

C11_Witness ==
    /\ execution = 2
    /\ deployed[FleetService] = "web_api@2"
    /\ image_at_start[FleetService] = "web_api@1"
    /\ service[FleetService].image = "web_api@2"
    /\ step_status[EcsDeployFleet] = "succeeded"

\* C12: a change of the onebox alarm leaves the fleet service as it is, and a
\* change of the fleet alarm leaves the onebox service as it is; a step that
\* rolls a deployment back changes no other service; and the deployment step
\* of a rolled back deployment ends, succeeded or failed, without changing any
\* service.
C12_RollbackOnlyItsService ==
    /\ [][alarm'[OneboxAlarm] # alarm[OneboxAlarm]
            => service'[FleetService] = service[FleetService]]_vars
    /\ [][alarm'[FleetAlarm] # alarm[FleetAlarm]
            => service'[OneboxService] = service[OneboxService]]_vars
    /\ [][\A v \in DOMAIN service :
            (service[v].rollout_state = "IN_PROGRESS"
             /\ service'[v].rollout_state = "ROLLED_BACK")
            => /\ service'[v].image = service[v].previous_image
               /\ \A w \in DOMAIN service \ {v} : service'[w] = service[w]
               /\ step_status' = step_status]_vars
    /\ [][\A s \in {EcsDeployOnebox, EcsDeployFleet} :
            (step_status[s] = "running" /\ step_status'[s] # "running"
             /\ \E v \in TargetServices(s) : service[v].rollout_state = "ROLLED_BACK")
            => service' = service]_vars

\* The fleet deployment was rolled back, its step ended as succeeded, and the
\* onebox service runs the image of the execution.
C12_Witness ==
    /\ service[FleetService].rollout_state = "ROLLED_BACK"
    /\ step_status[EcsDeployFleet] = "succeeded"
    /\ alarm[FleetAlarm] = "ALARM"
    /\ alarm[OneboxAlarm] = "OK"
    /\ service[OneboxService].image = commit.runtime_image
    /\ service[FleetService].image # commit.runtime_image

\* The target group, the service and the alarm of a stage, by their names.
StageTargetGroup(stage) == stage \o TARGET_GROUP
StageService(stage) == APP_NAME \o <<"-">> \o stage
StageAlarm(stage) ==
    IF stage = ONEBOX THEN OneboxAlarm ELSE FleetAlarm
OtherStage(stage) == IF stage = ONEBOX THEN FLEET ELSE ONEBOX

\* C13: in a synthesized stack, for each stage: the targets of the stage's
\* target group are exactly the stage's service, the stage's alarm is on the
\* metric of the stage's target group, and the alarms registered for rollback
\* on the stage's service are exactly the stage's alarm; the stack has the two
\* stage alarms and no other.
C13_StageWiring ==
    /\ synth_pc >= 2 =>
          \A stage \in DeploymentStages :
              /\ template.target_groups[StageTargetGroup(stage)].targets
                    = {StageService(stage)}
              /\ StageService(stage) \in DOMAIN template.services
              /\ StageTargetGroup(stage) # StageTargetGroup(OtherStage(stage))
              /\ StageService(stage) # StageService(OtherStage(stage))
    /\ synth_pc >= 4 =>
          /\ DOMAIN template.alarms = {StageAlarm(ONEBOX), StageAlarm(FLEET)}
          /\ Cardinality(DOMAIN template.alarms) = 2
          /\ \A stage \in DeploymentStages :
                /\ template.alarms[StageAlarm(stage)].target_group
                      = StageTargetGroup(stage)
                /\ template.alarms[StageAlarm(stage)].metric_name = "TargetResponseTime"
                /\ template.services[StageService(stage)].deployment_alarms
                      = {StageAlarm(stage)}
                /\ template.services[StageService(stage)].alarm_behavior
                      = "ROLLBACK_ON_ALARM"

C13_Witness ==
    /\ synth_pc = Len(SynthSteps)
    /\ stack_name = PROD_STACK_NAME
    /\ Cardinality(DOMAIN template.alarms) = 2
    /\ template.services[StageService(FLEET)].deployment_alarms # {}

\* C14: the service the deployment step of a stage imports has the cluster name
\* <app>-Prod (Prod being the last dash-separated segment of the stack name)
\* and the service name <app>-<stage>, which are the names of the cluster and
\* of the stage's service in the stack; a service is given a new deployment only
\* in a step that starts the deployment step of its stage, and a change of
\* status of the deployment step of a stage leaves the service of the other
\* stage as it is.
C14_StepTargetsItsService ==
    /\ [](\A stage \in DeploymentStages :
            /\ pipeline.steps[ECS_DEPLOY \o stage].ecs_service
                  = [cluster |-> APP_NAME \o <<"-", "P", "r", "o", "d">>,
                     service_name |-> StageService(stage)]
            /\ pipeline.steps[ECS_DEPLOY \o stage].ecs_service.cluster
                  = template.ecs_cluster_name
            /\ template.services[StageService(stage)].cluster
                  = template.ecs_cluster_name
            /\ Running(ECS_DEPLOY \o stage)
                  => TargetServices(ECS_DEPLOY \o stage) = {StageService(stage)})
    /\ [][\A stage \in DeploymentStages :
            /\ (service'[StageService(stage)].rollout_state = "IN_PROGRESS"
                 /\ service[StageService(stage)].rollout_state # "IN_PROGRESS")
                => /\ step_status[ECS_DEPLOY \o stage] = "pending"
                   /\ step_status'[ECS_DEPLOY \o stage] = "running"
            /\ step_status'[ECS_DEPLOY \o stage] # step_status[ECS_DEPLOY \o stage]
                => service'[StageService(OtherStage(stage))]
                      = service[StageService(OtherStage(stage))]]_vars

C14_Witness ==
    /\ Running(EcsDeployFleet)
    /\ service[StageService(FLEET)].rollout_state = "IN_PROGRESS"
    /\ service[StageService(FLEET)].image = commit.runtime_image
    /\ service[StageService(ONEBOX)].rollout_state = "COMPLETED"

\* C15: the step that completes the stack deployment of a revision with a
\* changed BOOTSTRAP_CONTAINER_IMAGE puts both services on that image in the
\* same step; and while the stack deployment of an execution has succeeded
\* and its onebox deployment step has not started, if the stack deployment
\* changed a service then both services run the revision's bootstrap image
\* and no deployment step has given either of them an image.
C15_BootstrapChangeBypassesStaging ==
    /\ [][(/\ step_status[DEPLOY_STACK] = "running"
            /\ step_status'[DEPLOY_STACK] = "succeeded"
            /\ stack.bootstrap_image # commit.bootstrap_image)
           => \A v \in {OneboxService, FleetService} :
                 /\ service'[v].image = commit.bootstrap_image
                 /\ service'[v].rollout_state = "COMPLETED"]_vars
    /\ []((/\ step_status[DEPLOY_STACK] = "succeeded"
            /\ step_status[EcsDeployOnebox] = "pending"
            /\ image_after_stack # image_at_start)
           => \A v \in {OneboxService, FleetService} :
                 /\ service[v].image = commit.bootstrap_image
                 /\ service[v].image \in BootstrapImages
                 /\ deployed[v] = NoImage)

\* Both services ran an application image; the second execution changed the
\* bootstrap image.
C15_Witness ==
    /\ execution = 2
    /\ step_status[DEPLOY_STACK] = "succeeded"
    /\ step_status[EcsDeployOnebox] = "pending"
    /\ image_at_start[OneboxService] \in RuntimeImages
    /\ image_at_start[FleetService] \in RuntimeImages
    /\ service[OneboxService].image = "nginx:changed"
    /\ service[FleetService].image = "nginx:changed"

\* Pipeline p with every declaration of dep removed from the dependencies of
\* step.
WithoutDependency(p, step, dep) ==
    [p EXCEPT !.steps[step].dependencies = SelectSeq(@, LAMBDA d : d # dep)]

\* How many times step declares dep as a dependency.
Declarations(p, step, dep) ==
    Cardinality({i \in 1..Len(p.steps[step].dependencies) :
                    p.steps[step].dependencies[i] = dep})

\* C17: the first dependency a deployment step declares is the step that
\* produces its input, GenerateImageDefinitionJson; a deployment step has left
\* "pending" only if that step has succeeded; in the pipeline without the
\* fleet step's dependency on the onebox step, the fleet step still waits for
\* GenerateImageDefinitionJson and has a greater run order; and the onebox
\* step declares GenerateImageDefinitionJson twice.
C17_DependsOnInputProducer ==
    /\ \A s \in {EcsDeployOnebox, EcsDeployFleet} :
          /\ pipeline.steps[s].input
                = pipeline.steps[GENERATE_IMAGE_DEFINITION_JSON].primary_output
          /\ pipeline.steps[s].input = GENERATE_IMAGE_DEFINITION_JSON
          /\ Len(pipeline.steps[s].dependencies) >= 1
          /\ pipeline.steps[s].dependencies[1] = pipeline.steps[s].input
          /\ step_status[s] # "pending"
                => step_status[GENERATE_IMAGE_DEFINITION_JSON] = "succeeded"
    /\ LET p == WithoutDependency(pipeline, EcsDeployFleet, EcsDeployOnebox)
       IN  /\ EcsDeployOnebox \notin DependenciesOf(p, EcsDeployFleet)
           /\ GENERATE_IMAGE_DEFINITION_JSON \in DependenciesOf(p, EcsDeployFleet)
           /\ RunOrder(p, EcsDeployFleet) > RunOrder(p, GENERATE_IMAGE_DEFINITION_JSON)
    /\ Declarations(pipeline, EcsDeployOnebox, GENERATE_IMAGE_DEFINITION_JSON) = 2
    /\ Declarations(pipeline, EcsDeployFleet, GENERATE_IMAGE_DEFINITION_JSON) = 1

C17_Witness ==
    /\ Running(EcsDeployFleet)
    /\ step_status[GENERATE_IMAGE_DEFINITION_JSON] = "succeeded"
    /\ Len(artifact) = 1
    /\ execution = 2

\* C18: no step of the pipeline waits, directly or not, for itself; when an
\* execution is over, either every step has succeeded, or a step has failed
\* and the pending steps are exactly the steps that wait for a failed step;
\* the fleet deployment step has succeeded only if every other step has; and
\* every execution that starts is eventually over.
C18_ExecutionTerminates ==
    /\ [](\A s \in Steps(pipeline) :
             s \notin Downstream(pipeline, s, Cardinality(Steps(pipeline))))
    /\ [](ExecutionOver =>
             \/ \A s \in Steps(pipeline) : step_status[s] = "succeeded"
             \/ /\ \E s \in Steps(pipeline) : step_status[s] = "failed"
                /\ \A t \in Steps(pipeline) :
                      step_status[t] = "pending"
                          <=> \E s \in Steps(pipeline) :
                                 /\ step_status[s] = "failed"
                                 /\ t \in Downstream(pipeline, s,
                                                      Cardinality(Steps(pipeline))))
    /\ [](step_status[EcsDeployFleet] = "succeeded"
             => \A s \in Steps(pipeline) : step_status[s] = "succeeded")
    /\ \A n \in 1..MaxExecutions :
          (execution = n) ~> (execution = n /\ ExecutionOver)

\* The second execution is over with every step succeeded.
C18_Witness ==
    /\ execution = 2
    /\ ExecutionOver
    /\ \A s \in Steps(pipeline) : step_status[s] = "succeeded"
    /\ service[FleetService].image = commit.runtime_image

DeploymentStepsOf(p) ==
    {s \in DOMAIN p.steps : p.steps[s].kind = "EcsDeployStep"}

\* C16: when the image definition step has no primary output, construction
\* of the toolchain stack ends in the raised error with no deployment step
\* created, no step added to the Prod stage, and nothing ever executed; a
\* deployment step is created only when the primary output exists, with it as
\* input and its producer as first dependency; and the construction that
\* completes yields the pipeline of ToolchainStack.__init__.
C16_MissingOutputAbortsSynthesis ==
    /\ toolchain_pc = "raised"
          => /\ pipeline.steps[GENERATE_IMAGE_DEFINITION_JSON].primary_output = None
             /\ DeploymentStepsOf(pipeline) = {}
             /\ pipeline.post = <<>>
             /\ execution = 0
             /\ run_order = NoObjects
    /\ (GENERATE_IMAGE_DEFINITION_JSON \in DOMAIN pipeline.steps
        /\ pipeline.steps[GENERATE_IMAGE_DEFINITION_JSON].primary_output = None)
          => /\ DeploymentStepsOf(pipeline) = {}
             /\ pipeline.post = <<>>
             /\ toolchain_pc \in {"check_primary_output", "raised"}
    /\ \A s \in DeploymentStepsOf(pipeline) :
          /\ pipeline.steps[s].input = GENERATE_IMAGE_DEFINITION_JSON
          /\ pipeline.steps[s].dependencies[1] = GENERATE_IMAGE_DEFINITION_JSON
    /\ toolchain_pc \in {"synth", "done"} => pipeline = ToolchainStack__init__

C16_Witness ==
    /\ toolchain_pc = "raised"
    /\ Len(pipeline.stacks) = 1
    /\ DOMAIN pipeline.steps = {SYNTH_STEP, GENERATE_IMAGE_DEFINITION_JSON}

====
